---- MODULE Spec2Model ----
(***************************************************************************)
(* MarketMicroservice (src/market_microservice.py): one exchange wrapper   *)
(* whose get_order_book coroutine retries the exchange's fetch_order_book  *)
(* and mirrors the connection status to a Firestore document.              *)
(*                                                                         *)
(* Several get_order_book coroutines may run on one instance.  asyncio is  *)
(* single-threaded, so a coroutine runs without interruption from one      *)
(* await to the next: every action below is one such stretch of code.      *)
(* The awaits are the exchange call (line 139) and the three sleeps        *)
(* (lines 161, 165, 171).                                                  *)
(*                                                                         *)
(* The source file ends in the middle of line 175, inside the last except  *)
(* clause.  What follows that point (the amount added to                   *)
(* reconnect_attempts and what the coroutine does once the loop is used    *)
(* up) is taken from spec.md section 4.2, steps 2f and 3.                  *)
(***************************************************************************)
EXTENDS Integers, Sequences, FiniteSets, TLC

\* Python's None, and a value that is not None: an optional value is a
\* sequence of length at most one.
None == <<>>
Some(x) == <<x>>
Val(o) == o[1]

\* ExchangeStatus
CONNECTED == "connected"
DISCONNECTED == "disconnected"
RATE_LIMITED == "rate_limited"
MAINTENANCE == "maintenance"
ExchangeStatus == {CONNECTED, DISCONNECTED, RATE_LIMITED, MAINTENANCE}

\* The coroutines that call get_order_book on the one instance.
Calls == {"a", "b"}

\* self.max_reconnect_attempts: set once in __init__, never assigned again.
max_reconnect_attempts == 5

------------------------------------------------------------------------------
\* Bounds of the exploration.

\* reconnect_attempts is not driven above this value.
MaxFailures == 5

\* A venue that reports a reset time reports one this many seconds after its
\* response.
HintAhead == 3
\* The attempt budget the callers have in mind (spec.md 4.2, maxAttempts).
AskedAttempts == 3

------------------------------------------------------------------------------
\* Instants are kept as seconds from the present instant, datetime.now(): an
\* instant k > 0 lies k seconds ahead, and every instant that is not ahead is
\* written 0.  The code reads an instant only in the comparison of line 116.
VARIABLES
  status,              \* self.status
  reconnect_attempts,  \* self.reconnect_attempts
  rate_limit_reset,    \* self.rate_limit_reset: None or an instant
  state_ref,           \* self.state_ref: None when Firestore could not be set up
  stored,              \* the Firestore document exchange_states/<exchange_id>
  call,                \* per coroutine: its frame in get_order_book
  phase,               \* where the construction of the instance stands
  hist                 \* what the one caller's current call has been through

vars ==
  <<status, reconnect_attempts, rate_limit_reset, state_ref, stored, call,
    phase, hist>>

NoResult == [kind |-> "none"]

\* A frame outside get_order_book.
Idle ==
  [pc |-> "idle", attempt |-> 0, adapter_calls |-> 0, order_book |-> None,
   failure |-> "none", persisted |-> FALSE, delay |-> 0, wake_in |-> 0,
   result |-> NoResult]

\* Raw responses of exchange.fetch_order_book: a dict that may lack either
\* key.  A side is the list of its price levels; the bid at 1 and the ask at 2
\* stand for any levels.
RawBooks ==
  { [bids |-> <<1>>, asks |-> <<>>], [bids |-> <<>>, asks |-> <<2>>],
    [bids |-> <<1>>], [asks |-> <<2>>], <<>> }

\* Line 142: both keys are in the response.
WellFormed(ob) == "bids" \in DOMAIN ob /\ "asks" \in DOMAIN ob

\* A dict that is returned without its asks entry.
snapshot_bids_only(ob) ==
  [kind |-> "snapshot", book |-> [k \in {"bids"} |-> ob[k]]]

\* Lines 149-154: the dict that is returned.  Its timestamp and symbol entries
\* are left out: no other part of the program reads them.
snapshot(ob) ==
  [kind |-> "snapshot", book |-> [k \in {"bids", "asks"} |-> ob[k]]]

\* What the x-ratelimit-reset header of a rate-limit response may hold: nothing,
\* or the epoch second that lies HintAhead seconds ahead.
Hints == {None, Some(HintAhead)}

Min(S) == CHOOSE x \in S : \A y \in S : x <= y

\* An instant d seconds later.
Later(k, d) == IF k > d THEN k - d ELSE 0

------------------------------------------------------------------------------
\* _persist_state: no write without a document reference; a write that raises
\* is logged and leaves the document as it was; set(..., merge=True) overwrites
\* the fields it is given.  st and ra are self.status and
\* self.reconnect_attempts at the time of the call.
persist_state(st, ra, ok) ==
  IF state_ref = None \/ ~ok
    THEN stored
    ELSE Some([status |-> st, reconnect_attempts |-> ra])

\* A _persist_state whose failed write is not caught.
persist_raises_uncaught(ok) == state_ref # None /\ ~ok

\* _persist_state, lines 98-99 and 101-111: whether the call raises.  Without
\* a document reference it returns at once, and the except clause of line 110
\* catches whatever the write raises.
persist_raises(ok) == FALSE

\* A handler that ignores the header and always stores the epoch.
fromtimestamp_epoch(hint) == 0

\* last_response_headers.get('x-ratelimit-reset', 0), then
\* datetime.fromtimestamp: the instant of that epoch second.  Epoch second 0
\* is 1970, which is not ahead of any present.
fromtimestamp(hint) == IF hint = None THEN 0 ELSE Val(hint)

\* The condition of lines 115-116.
CoolingIn(st, reset) ==
  /\ st = RATE_LIMITED
  /\ reset # None
  /\ 0 < Val(reset)

Cooling == CoolingIn(status, rate_limit_reset)

\* A check that marks the instance connected only on leaving a cool-down, and
\* disconnected otherwise.
handle_rate_limit_once(st, reset) ==
  IF CoolingIn(st, reset) THEN st
  ELSE IF st = RATE_LIMITED THEN CONNECTED ELSE DISCONNECTED

\* _handle_rate_limit: self.status after the call.  The asyncio.sleep of line
\* 119 is called without await in a plain function: it builds a coroutine
\* object that never runs, so no time passes and nothing else changes.
handle_rate_limit_from(st, reset) ==
  IF CoolingIn(st, reset) THEN st ELSE CONNECTED

handle_rate_limit == handle_rate_limit_from(status, rate_limit_reset)

\* A backoff that grows linearly.
backoff_linear(attempt) == 2 * attempt

\* Line 161: 2 ** attempt
backoff(attempt) == 2 ^ attempt

\* await asyncio.sleep(d): the frame is suspended for d seconds.
Sleep(f, d) == [f EXCEPT !.pc = "sleeping", !.delay = d, !.wake_in = d]

\* spec.md 4.2 step 3: the loop is used up.
LoopExhausted(f) ==
  [f EXCEPT !.pc = "done", !.wake_in = 0,
            !.result = [kind |-> "error", reason |-> f.failure,
                        attempts |-> max_reconnect_attempts]]

\* A loop that runs one iteration too many.
NextAttempt_one_more(f) ==
  IF f.attempt + 1 <= max_reconnect_attempts
    THEN [f EXCEPT !.pc = "fetching", !.attempt = @ + 1,
                   !.adapter_calls = @ + 1, !.order_book = None]
    ELSE LoopExhausted(f)

\* A loop that retries without counting its attempts.
NextAttempt_uncounted(f) ==
  [f EXCEPT !.pc = "fetching", !.order_book = None]

\* Line 137, from the end of one iteration: the next value of range(5) and
\* the exchange call of line 139, or the end of the loop.
NextAttempt(f) ==
  IF f.attempt + 1 < max_reconnect_attempts
    THEN [f EXCEPT !.pc = "fetching", !.attempt = @ + 1,
                   !.adapter_calls = @ + 1, !.order_book = None]
    ELSE LoopExhausted(f)

\* spec.md 4.1 recordTransientFailure: what line 175 adds to the counter.
OtherIncrement == 1

------------------------------------------------------------------------------
\* Lines 135-139: _handle_rate_limit(), then the first exchange call.
get_order_book(c) ==
  /\ phase = "ready"
  /\ call[c].pc \in {"idle", "done"}
  /\ status' = handle_rate_limit
  /\ call' = [call EXCEPT ![c] =
       [Idle EXCEPT !.pc = "fetching", !.adapter_calls = 1]]
  /\ UNCHANGED <<reconnect_attempts, rate_limit_reset, state_ref, stored>>

\* A success branch without line 146.
FetchOk_keeps_counter(c, ob, ok) ==
  /\ call[c].pc = "fetching"
  /\ WellFormed(ob)
  /\ stored' = persist_state(status, reconnect_attempts, ok)
  /\ call' = [call EXCEPT ![c] =
       [@ EXCEPT !.pc = "done", !.order_book = Some(ob), !.persisted = TRUE,
                 !.result = snapshot(ob)]]
  /\ UNCHANGED <<status, reconnect_attempts, rate_limit_reset, state_ref>>

\* An exception that leaves get_order_book: one raised inside an except
\* clause is not caught by the clauses next to it.
Raised(f) == [f EXCEPT !.pc = "done", !.result = [kind |-> "raised"]]

\* Lines 139-154, what they do to the counter and to the frame.  The call of
\* line 147 is inside the try block: were it to raise, the except clause of
\* line 173 would take over.
OkEffect(c, ob, ok) ==
  IF persist_raises(ok)
    THEN [reconnect_attempts |-> 0 + OtherIncrement,
          frame |-> NextAttempt([call[c] EXCEPT
                      !.failure = "other", !.order_book = Some(ob),
                      !.persisted = TRUE, !.delay = 0])]
    ELSE [reconnect_attempts |-> 0,
          frame |-> [call[c] EXCEPT
                      !.pc = "done", !.order_book = Some(ob),
                      !.persisted = TRUE, !.result = snapshot(ob)]]

\* Lines 139-154: a response with both keys.
FetchOk(c, ob, ok) ==
  /\ call[c].pc = "fetching"
  /\ WellFormed(ob)
  /\ reconnect_attempts' = OkEffect(c, ob, ok).reconnect_attempts
  /\ stored' = persist_state(status, 0, ok)
  /\ call' = [call EXCEPT ![c] = OkEffect(c, ob, ok).frame]
  /\ UNCHANGED <<status, rate_limit_reset, state_ref>>

\* Lines 173-175, then line 137.
OtherFailure(c, kind, ob) ==
  /\ reconnect_attempts < MaxFailures
  /\ reconnect_attempts' = reconnect_attempts + OtherIncrement
  /\ call' = [call EXCEPT ![c] =
       NextAttempt([@ EXCEPT !.failure = kind, !.order_book = ob,
                             !.persisted = FALSE, !.delay = 0])]
  /\ UNCHANGED <<status, rate_limit_reset, state_ref, stored>>

\* A ValueError of line 143 that no except clause catches.
FetchMalformed_uncaught(c, ob) ==
  /\ call[c].pc = "fetching"
  /\ ~WellFormed(ob)
  /\ call' = [call EXCEPT ![c] =
       Raised([@ EXCEPT !.failure = "malformed", !.order_book = Some(ob)])]
  /\ UNCHANGED <<status, reconnect_attempts, rate_limit_reset, state_ref,
                 stored>>

\* Lines 139-143, 173-175: a response that lacks a key raises ValueError,
\* which the last except clause catches.
FetchMalformed(c, ob) ==
  /\ call[c].pc = "fetching"
  /\ ~WellFormed(ob)
  /\ OtherFailure(c, "malformed", Some(ob))

\* Lines 173-175: any other exception of the exchange call.
FetchOtherError(c) ==
  /\ call[c].pc = "fetching"
  /\ OtherFailure(c, "other", None)

\* Lines 156-161, what they do to the frame.
RateLimitedEffect(c, ok) ==
  IF persist_raises(ok)
    THEN Raised([call[c] EXCEPT !.failure = "rate_limit", !.persisted = TRUE])
    ELSE Sleep([call[c] EXCEPT !.failure = "rate_limit", !.persisted = TRUE],
               backoff(call[c].attempt))

\* A rate-limit handler that persists before it assigns the status.
FetchRateLimited_persists_first(c, hint, ok) ==
  /\ call[c].pc = "fetching"
  /\ status' = RATE_LIMITED
  /\ rate_limit_reset' = Some(fromtimestamp(hint))
  /\ stored' = persist_state(status, reconnect_attempts, ok)
  /\ call' = [call EXCEPT ![c] = RateLimitedEffect(c, ok)]
  /\ UNCHANGED <<reconnect_attempts, state_ref>>

\* Lines 156-161: ccxt.RateLimitExceeded.
FetchRateLimited(c, hint, ok) ==
  /\ call[c].pc = "fetching"
  /\ status' = RATE_LIMITED
  /\ rate_limit_reset' = Some(fromtimestamp(hint))
  /\ stored' = persist_state(RATE_LIMITED, reconnect_attempts, ok)
  /\ call' = [call EXCEPT ![c] = RateLimitedEffect(c, ok)]
  /\ UNCHANGED <<reconnect_attempts, state_ref>>

\* A timeout branch that also calls _persist_state.
FetchTimeout_persists(c) ==
  /\ call[c].pc = "fetching"
  /\ \E ok \in BOOLEAN :
       stored' = persist_state(status, reconnect_attempts, ok)
  /\ call' = [call EXCEPT ![c] =
       Sleep([@ EXCEPT !.failure = "timeout", !.persisted = TRUE], 1)]
  /\ UNCHANGED <<status, reconnect_attempts, rate_limit_reset, state_ref>>

\* A timeout handler that sleeps two seconds.
FetchTimeout_sleeps_two(c) ==
  /\ call[c].pc = "fetching"
  /\ call' = [call EXCEPT ![c] = Sleep([@ EXCEPT !.failure = "timeout"], 2)]
  /\ UNCHANGED <<status, reconnect_attempts, rate_limit_reset, state_ref,
                 stored>>

\* Lines 163-165: ccxt.RequestTimeout.
FetchTimeout(c) ==
  /\ call[c].pc = "fetching"
  /\ call' = [call EXCEPT ![c] =
       Sleep([@ EXCEPT !.failure = "timeout", !.persisted = FALSE], 1)]
  /\ UNCHANGED <<status, reconnect_attempts, rate_limit_reset, state_ref, stored>>

\* Lines 167-171, what they do to the frame.
UnavailableEffect(c, ok) ==
  IF persist_raises(ok)
    THEN Raised([call[c] EXCEPT !.failure = "unavailable", !.persisted = TRUE])
    ELSE Sleep([call[c] EXCEPT !.failure = "unavailable", !.persisted = TRUE],
               30)

\* Lines 167-171: ccxt.ExchangeNotAvailable.
FetchUnavailable(c, ok) ==
  /\ call[c].pc = "fetching"
  /\ status' = MAINTENANCE
  /\ stored' = persist_state(MAINTENANCE, reconnect_attempts, ok)
  /\ call' = [call EXCEPT ![c] = UnavailableEffect(c, ok)]
  /\ UNCHANGED <<reconnect_attempts, rate_limit_reset, state_ref>>

\* The end of an asyncio.sleep whose time is up, then line 137.
Wake(c) ==
  /\ call[c].pc = "sleeping"
  /\ call[c].wake_in = 0
  /\ call' = [call EXCEPT ![c] = NextAttempt(@)]
  /\ UNCHANGED <<status, reconnect_attempts, rate_limit_reset, state_ref, stored>>

\* The instants that lie ahead: the ends of the sleeps and the reset time.
Timers ==
  {call[c].wake_in : c \in {x \in Calls : call[x].pc = "sleeping"}}
    \cup (IF rate_limit_reset = None THEN {} ELSE {Val(rate_limit_reset)})

\* Time passes, up to the nearest instant ahead.
Elapse ==
  LET ahead == Timers \ {0} IN
  /\ ahead # {}
  /\ call' = [c \in Calls |->
       [call[c] EXCEPT !.wake_in = Later(@, Min(ahead))]]
  /\ rate_limit_reset' =
       IF rate_limit_reset = None THEN None
       ELSE Some(Later(Val(rate_limit_reset), Min(ahead)))
  /\ UNCHANGED <<status, reconnect_attempts, state_ref, stored>>

------------------------------------------------------------------------------
\* The record kept of one call: the kind its failed attempts share ("none"
\* before the first, "mixed" when they differ) and, while they share one, how
\* many attempts failed, the sleeps completed and their total length; the
\* reset time of the last rate-limit response that carried one, the status
\* found on entry, and whether some write to the document has failed since
\* construction.  The counts stop at the attempt budget, which no call
\* exceeds.
NoHist ==
  [uniform |-> "none", failed |-> 0, sleeps |-> 0, slept |-> 0,
   hint |-> None, entry |-> "none", lost |-> FALSE]

\* Lines 48-62, before _init_exchange is called: status DISCONNECTED (line
\* 50), counter 0, no reset time, and the document reference or None.
Init ==
  /\ status = DISCONNECTED
  /\ reconnect_attempts = 0
  /\ rate_limit_reset = None
  /\ state_ref \in {None, Some("doc")}
  /\ stored = None
  /\ call = [c \in Calls |-> Idle]
  /\ phase = "new"
  /\ hist = NoHist

\* An _init_exchange that leaves the status as __init__ set it.
init_exchange_keeps_status(ok) ==
  /\ phase = "new"
  /\ phase' = "ready"
  /\ stored' = persist_state(status, reconnect_attempts, ok)
  /\ UNCHANGED <<status, reconnect_attempts, rate_limit_reset, state_ref,
                 call>>

\* _init_exchange, lines 69-86: the exchange is built, the status becomes
\* CONNECTED (line 82) and the state is persisted (line 86).
init_exchange(ok) ==
  /\ phase = "new"
  /\ phase' = "ready"
  /\ status' = CONNECTED
  /\ stored' = persist_state(CONNECTED, reconnect_attempts, ok)
  /\ UNCHANGED <<reconnect_attempts, rate_limit_reset, state_ref, call>>

\* _init_exchange, lines 88-94: the exchange cannot be built; the exception
\* leaves __init__ and there is no instance to call.
init_exchange_raises ==
  /\ phase = "new"
  /\ phase' = "failed"
  /\ status' = DISCONNECTED
  /\ UNCHANGED <<reconnect_attempts, rate_limit_reset, state_ref, stored,
                 call>>

\* What one coroutine can do, the rate-limit response apart.
Unhinted(c) ==
  \/ get_order_book(c)
  \/ \E ob \in RawBooks, ok \in BOOLEAN : FetchOk(c, ob, ok)
  \/ \E ob \in RawBooks : FetchMalformed(c, ob)
  \/ FetchOtherError(c)
  \/ FetchTimeout(c)
  \/ \E ok \in BOOLEAN : FetchUnavailable(c, ok)
  \/ Wake(c)

\* What one coroutine can do.
Step(c) ==
  \/ Unhinted(c)
  \/ \E hint \in Hints, ok \in BOOLEAN : FetchRateLimited(c, hint, ok)

\* The record of the call of c after the step it has just taken.
Observe(c, hint) ==
  hist' =
    IF call[c].pc \in {"idle", "done"}
      THEN [NoHist EXCEPT !.entry = status, !.lost = hist.lost]
    ELSE IF call[c].pc = "sleeping"
      THEN IF hist.uniform = "mixed" THEN hist
           ELSE IF hist.sleeps = max_reconnect_attempts THEN hist
           ELSE [hist EXCEPT !.sleeps = @ + 1, !.slept = @ + call[c].delay]
    ELSE IF call'[c].result.kind = "snapshot"
      THEN [hist EXCEPT
              !.lost = @ \/ (state_ref # None /\ stored' #
                 Some([status |-> status',
                       reconnect_attempts |-> reconnect_attempts']))]
    ELSE [hist EXCEPT
            !.uniform = IF @ \in {"none", call'[c].failure}
                          THEN call'[c].failure ELSE "mixed",
            !.failed = IF hist.uniform \notin {"none", call'[c].failure}
                         THEN 0
                       ELSE IF @ = max_reconnect_attempts THEN @ ELSE @ + 1,
            !.sleeps = IF hist.uniform \in {"none", call'[c].failure}
                         THEN @ ELSE 0,
            !.slept = IF hist.uniform \in {"none", call'[c].failure}
                        THEN @ ELSE 0,
            !.hint = IF call'[c].failure = "rate_limit" THEN hint ELSE @,
            !.lost = @ \/ (call'[c].persisted /\ state_ref # None /\ stored' #
               Some([status |-> status',
                     reconnect_attempts |-> reconnect_attempts']))]

\* The one caller, which awaits each call before it makes the next.
Caller ==
  /\ \/ Unhinted("a") /\ Observe("a", None)
     \/ \E hint \in Hints, ok \in BOOLEAN :
          FetchRateLimited("a", hint, ok) /\ Observe("a", hint)
  /\ UNCHANGED phase

\* Time passes for the one caller.
Tick ==
  /\ Elapse
  /\ hist' = [hist EXCEPT !.hint =
       IF @ = None THEN None ELSE Some(Later(Val(@), Min(Timers \ {0})))]
  /\ UNCHANGED phase

\* The construction of the instance.
Construct == (\E ok \in BOOLEAN : init_exchange(ok)) \/ init_exchange_raises

\* The construction, and whether its write to the document failed.
Constructor ==
  /\ Construct
  /\ hist' = [hist EXCEPT !.lost = phase' = "ready" /\ state_ref # None /\
       stored' # Some([status |-> status',
                       reconnect_attempts |-> reconnect_attempts'])]

Next == Constructor \/ Caller \/ Tick

Spec == Init /\ [][Next]_vars

\* Two callers, each making one call; b's call is made once a's has been
\* made, while it runs or after it.
Overlap(c) ==
  /\ call[c].pc = "idle" => (c = "a" \/ call["a"].pc # "idle")
  /\ call[c].pc # "done"
  /\ Step(c)
  /\ UNCHANGED <<phase, hist>>

NextConc ==
  \/ Construct /\ UNCHANGED hist
  \/ \E c \in Calls : Overlap(c)
  \/ Elapse /\ UNCHANGED <<phase, hist>>

SpecConc == Init /\ [][NextConc]_vars

\* The one caller, with every exchange call and every sleep it awaits
\* completing: the event loop resumes a coroutine whose awaitable is done, and
\* time passes.  Nothing obliges the caller to make a further call.
SpecLive ==
  /\ Spec
  /\ WF_vars(Caller /\ call["a"].pc \in {"fetching", "sleeping"})
  /\ WF_vars(Tick)

------------------------------------------------------------------------------
\* Properties.

Returned(c) == call[c].pc = "done" /\ call[c].result.kind = "snapshot"
Failed(c) == call[c].pc = "done" /\ call[c].result.kind = "error"

\* The step in which the exchange call of c ends in a failure of any kind.
AttemptFails(c) ==
  /\ call[c].pc = "fetching"
  /\ call'[c] # call[c]
  /\ call'[c].result.kind # "snapshot"

\* C1: in every state, rate_limit_reset is set if and only if the status is
\* RATE_LIMITED.
C1_ResetIffRateLimited ==
  (rate_limit_reset # None) <=> (status = RATE_LIMITED)

\* C2, as claimed: a call in which every attempt fails makes exactly as many
\* exchange calls as the attempt budget its caller has in mind.
C2_CallsEqualAsked ==
  \A c \in Calls : Failed(c) => call[c].adapter_calls = AskedAttempts

\* C2, amended: a call in which every attempt fails makes exactly
\* max_reconnect_attempts exchange calls, and no call makes more.
C2_CallsEqualBudget ==
  \A c \in Calls :
    /\ call[c].adapter_calls <= max_reconnect_attempts
    /\ Failed(c) => call[c].adapter_calls = max_reconnect_attempts

C2_Witness ==
  \E c \in Calls : Failed(c) /\ call[c].result.reason = "timeout"

C4_ConnectedOnReturn ==
  \A c \in Calls : Returned(c) =>
    status = CONNECTED /\ rate_limit_reset = None

\* C5: a returned snapshot holds the bids and the asks of the response of the
\* successful attempt, and reconnect_attempts is 0 once it is returned.
C5_BookAndCounter ==
  \A c \in Calls : Returned(c) =>
    /\ call[c].order_book # None
    /\ call[c].result.book["bids"] = Val(call[c].order_book)["bids"]
    /\ call[c].result.book["asks"] = Val(call[c].order_book)["asks"]
    /\ reconnect_attempts = 0

\* A snapshot with an empty side, returned right after an attempt that had
\* raised the counter.
C5_Witness ==
  /\ Returned("a")
  /\ call["a"].failure \in {"other", "malformed"}
  /\ call["a"].result.book["asks"] = <<>>
  /\ reconnect_attempts = 0

\* C6: a call made while the status is RATE_LIMITED and the reset time lies
\* ahead makes no exchange call before it has waited: it first suspends
\* without having called the exchange.
C6_WaitsOutCoolDown ==
  [][\A c \in Calls :
       (Cooling /\ call[c].pc \in {"idle", "done"} /\ call'[c].pc = "fetching")
         => call'[c].adapter_calls = 0]_vars

\* C7: at the moment a rate-limit outcome has been handled (the backoff sleep
\* has just begun), the stored reset time lies strictly ahead.
C7_ResetAhead ==
  \A c \in Calls :
    (/\ call[c].pc = "sleeping"
     /\ call[c].failure = "rate_limit"
     /\ call[c].wake_in = call[c].delay)
      => rate_limit_reset # None /\ Val(rate_limit_reset) > 0

\* C8: every failed attempt, of whatever kind, adds one to reconnect_attempts.
C8_EveryFailureCounts ==
  [][\A c \in Calls :
       AttemptFails(c) => reconnect_attempts' = reconnect_attempts + 1]_vars

\* C9: the wait after a failed attempt is 1, 2, 4, 8, 16 seconds after a
\* rate-limit outcome of attempt 0, 1, 2, 3, 4, 1 second after a timeout and
\* 30 seconds after an unavailable exchange.
C9_Waits ==
  \A c \in Calls : call[c].pc = "sleeping" =>
    /\ call[c].failure \in {"rate_limit", "timeout", "unavailable"}
    /\ call[c].failure = "rate_limit" =>
         call[c].delay = <<1, 2, 4, 8, 16>>[call[c].attempt + 1]
    /\ call[c].failure = "timeout" => call[c].delay = 1
    /\ call[c].failure = "unavailable" => call[c].delay = 30

\* Five rate-limit outcomes in a row: the fifth wait, after 1, 2, 4 and 8.
C9_Witness ==
  /\ call["a"].pc = "sleeping"
  /\ call["a"].failure = "rate_limit"
  /\ call["a"].attempt = 4
  /\ call["a"].delay = 16

\* The outcome of the last attempt of a frame.
LastOutcome(f) == IF f.result.kind = "snapshot" THEN "ok" ELSE f.failure

\* C10: _persist_state has been called when the wait after a rate-limit or
\* unavailable outcome begins and when a snapshot is returned, and it is not
\* called for a timeout or any other failure.
C10_PersistPerOutcome ==
  \A c \in Calls : call[c].pc # "idle" =>
    call[c].persisted <=>
      LastOutcome(call[c]) \in {"ok", "rate_limit", "unavailable"}

\* A wait after a timeout, and no write was tried.
C10_Witness ==
  /\ call["a"].pc = "sleeping"
  /\ call["a"].failure = "timeout"
  /\ ~call["a"].persisted
  /\ state_ref # None

MalformedStep(c) ==
  /\ call[c].pc = "fetching"
  /\ call'[c] # call[c]
  /\ \/ call'[c].pc = "fetching" /\ call'[c].failure = "malformed"
     \/ call'[c].order_book # None /\ ~WellFormed(Val(call'[c].order_book))

\* C12: a response that lacks bids or asks is never returned, does not end
\* the call with an uncaught exception, and is followed by the next attempt
\* while the budget allows, else by the terminal error.
C12_MalformedRetried ==
  [][\A c \in Calls : MalformedStep(c) =>
       /\ call'[c].result.kind \notin {"snapshot", "raised"}
       /\ call'[c].failure = "malformed"
       /\ IF call[c].attempt + 1 < max_reconnect_attempts
            THEN /\ call'[c].pc = "fetching"
                 /\ call'[c].attempt = call[c].attempt + 1
                 /\ call'[c].adapter_calls = call[c].adapter_calls + 1
            ELSE /\ call'[c].pc = "done"
                 /\ call'[c].result.kind = "error"]_vars

\* The response {bids: [...]} on the first attempt, and the second attempt
\* under way.
C12_Witness ==
  /\ call["a"].pc = "fetching"
  /\ call["a"].attempt = 1
  /\ call["a"].failure = "malformed"

\* C13: when every failed attempt of a call was a timeout and the call has
\* returned after k of them, it returns the snapshot of the response of
\* attempt k+1, has made exactly k+1 exchange calls, has slept exactly k
\* times, one second each, and the counter is 0.
C13_TimeoutsThenSuccess ==
  (Returned("a") /\ hist.uniform \in {"none", "timeout"}) =>
     /\ call["a"].result = snapshot(Val(call["a"].order_book))
     /\ call["a"].adapter_calls = hist.failed + 1
     /\ call["a"].attempt = hist.failed
     /\ hist.sleeps = hist.failed
     /\ hist.slept = hist.failed * 1
     /\ reconnect_attempts = 0

\* Four timeouts, then the fifth and last attempt succeeds.
C13_Witness ==
  /\ Returned("a")
  /\ hist.uniform = "timeout"
  /\ hist.failed = max_reconnect_attempts - 1
  /\ hist.slept = max_reconnect_attempts - 1

\* C14: while every failed attempt of a call was a rate-limit response and
\* the last one carried a reset time, from its handling on and after the call
\* has ended the status is RATE_LIMITED and rate_limit_reset is that reset
\* time; the call that runs out of attempts this way ends with the error of
\* reason rate_limit.
C14_RateLimitedThroughout ==
  (/\ hist.uniform = "rate_limit"
   /\ hist.hint # None
   /\ call["a"].failure = "rate_limit"
   /\ call["a"].pc \in {"sleeping", "done"}
   /\ ~Returned("a")) =>
     /\ status = RATE_LIMITED
     /\ rate_limit_reset = hist.hint
     /\ call["a"].pc = "done" =>
          /\ Failed("a")
          /\ call["a"].result.reason = "rate_limit"
          /\ call["a"].adapter_calls = max_reconnect_attempts

\* Five rate-limit responses with a reset time, and the call has ended.
C14_Witness ==
  /\ Failed("a")
  /\ hist.uniform = "rate_limit"
  /\ hist.failed = max_reconnect_attempts
  /\ hist.hint # None

\* C15: the check at the start of a call sets the status to CONNECTED and
\* clears rate_limit_reset when the status is RATE_LIMITED and the reset time
\* has passed, and otherwise leaves both as they are.
C15_CheckFrame ==
  [][\A c \in Calls :
       (call[c].pc \in {"idle", "done"} /\ call'[c].pc = "fetching") =>
          IF status = RATE_LIMITED /\ ~Cooling
            THEN status' = CONNECTED /\ rate_limit_reset' = None
            ELSE status' = status /\ rate_limit_reset' = rate_limit_reset]_vars

\* C16: from the status RATE_LIMITED with the reset time passed, the check
\* gives CONNECTED, and applied to what it gave it gives the same again; the
\* reset time is the same throughout.
C16_CheckIdempotent ==
  (phase = "ready" /\ status = RATE_LIMITED /\ ~Cooling) =>
     LET once == handle_rate_limit_from(status, rate_limit_reset)
         twice == handle_rate_limit_from(once, rate_limit_reset)
         thrice == handle_rate_limit_from(twice, rate_limit_reset) IN
     /\ once = CONNECTED
     /\ twice = once
     /\ thrice = once

\* A call entered with the status RATE_LIMITED after the reset time, which the
\* check has made CONNECTED.
C16_Witness ==
  /\ call["a"].pc = "fetching"
  /\ call["a"].attempt = 0
  /\ hist.entry = RATE_LIMITED
  /\ status = CONNECTED
  /\ rate_limit_reset = Some(0)

\* The instance is constructed and no call has been made on it.
NewlyConstructed ==
  /\ phase = "ready"
  /\ \A c \in Calls : call[c].pc = "idle"

\* C17 as stated: a newly constructed instance has the status DISCONNECTED,
\* the counter 0 and no reset time.
C17_DisconnectedWhenNew ==
  NewlyConstructed =>
     /\ status = DISCONNECTED
     /\ reconnect_attempts = 0
     /\ rate_limit_reset = None

\* C17, amended: a newly constructed instance has the status CONNECTED, the
\* counter 0 and no reset time: the construction makes the transition out of
\* DISCONNECTED.
C17_ConnectedWhenNew ==
  NewlyConstructed =>
     /\ status = CONNECTED
     /\ reconnect_attempts = 0
     /\ rate_limit_reset = None

\* The instance right after its construction, the first write done.
C17_Witness ==
  /\ NewlyConstructed
  /\ stored = Some([status |-> CONNECTED, reconnect_attempts |-> 0])

\* The step in which c handles an outcome that it persists.
PersistingStep(c) ==
  /\ call[c].pc = "fetching"
  /\ call'[c] # call[c]
  /\ call'[c].persisted

\* The status and the counter that c's handling of the outcome has set.
OwnMutation(c) ==
  IF call'[c].result.kind = "snapshot"
    THEN [status |-> status, reconnect_attempts |-> 0]
  ELSE IF call'[c].failure = "rate_limit"
    THEN [status |-> RATE_LIMITED, reconnect_attempts |-> reconnect_attempts]
  ELSE [status |-> MAINTENANCE, reconnect_attempts |-> reconnect_attempts]

\* C18: with two calls in flight, the record a call writes when it handles an
\* outcome is the status and the counter that this handling has just set,
\* which are also those the instance has when the step ends: a failed write
\* leaves the document as it was, a successful one leaves nothing else in it.
C18_WriteCarriesOwnMutation ==
  [][\A c \in Calls : (PersistingStep(c) /\ state_ref # None) =>
       /\ stored' \in {stored, Some(OwnMutation(c))}
       /\ OwnMutation(c) =
            [status |-> status', reconnect_attempts |-> reconnect_attempts']
     ]_vars

\* Both calls are suspended in their sleeps, a after a rate-limit response and
\* b after the venue was unavailable, and the document holds what b wrote.
C18_Witness ==
  /\ call["a"].pc = "sleeping"
  /\ call["a"].failure = "rate_limit"
  /\ call["b"].pc = "sleeping"
  /\ call["b"].failure = "unavailable"
  /\ status = MAINTENANCE
  /\ stored = Some([status |-> MAINTENANCE, reconnect_attempts |-> 0])

\* C19: when no write to the document has failed, whenever a call is
\* suspended or has ended the document holds the status the instance has.
C19_StoredStatusCurrent ==
  (/\ state_ref # None
   /\ ~hist.lost
   /\ call["a"].pc \in {"fetching", "sleeping", "done"}) =>
     /\ stored # None
     /\ Val(stored).status = status

\* C20: a call that has been made ends, whatever the exchange answers, when
\* every exchange call and every sleep completes.
C20_CallEnds ==
  (call["a"].pc \in {"fetching", "sleeping"}) ~> (call["a"].pc = "done")

\* A call that has ended after five failed attempts of mixed kinds, the last
\* one a timeout.
C20_Witness ==
  /\ Failed("a")
  /\ hist.uniform = "mixed"
  /\ call["a"].failure = "timeout"
  /\ call["a"].adapter_calls = max_reconnect_attempts

====
